---- MODULE Spec2Model ----
(***************************************************************************)
(* Model of the last.fm client of playlie: the error-code decoding of      *)
(* lastfm/errors.rs, and the similar_tracks call of lastfm/mod.rs (URL     *)
(* construction, the hyper request, the status classification and the JSON *)
(* decoding of the body).                                                  *)
(*                                                                         *)
(* Text that the program inspects byte by byte (the request URL and what   *)
(* goes into it) is a sequence of one-character strings; text it only      *)
(* carries (track names, messages, the Uri once built) is a TLA+ string.   *)
(* A JSON object is a function from its field names to its values, a JSON  *)
(* array is a sequence.                                                    *)
(***************************************************************************)
EXTENDS Integers, Sequences, FiniteSets, TLC

VARIABLES client, calls, failed, probe

vars == <<client, calls, failed, probe>>

(***************************************************************************)
(* Bounds of the model.                                                    *)
(***************************************************************************)
\* longest "track" array a response carries
MaxTracks == 2

(***************************************************************************)
(* lastfm/errors.rs: ErrorCode and TryFrom<u64>.                           *)
(***************************************************************************)

Enumerated == (2..18) \cup (20..27) \cup {29}

\* enum ErrorCode (errors.rs): the discriminant of every variant
Discriminant(v) ==
  CASE v = "InvalidService" -> 2
    [] v = "InvalidMethod" -> 3
    [] v = "AuthenticationFailed" -> 4
    [] v = "InvalidFormat" -> 5
    [] v = "InvalidParameters" -> 6
    [] v = "InvalidResource" -> 7
    [] v = "OperationFailed" -> 8
    [] v = "InvalidSessionKey" -> 9
    [] v = "InvalidAPIKey" -> 10
    [] v = "ServiceOffline" -> 11
    [] v = "SubscribersOnly" -> 12
    [] v = "InvalidMethodSignature" -> 13
    [] v = "UnauthorizedToken" -> 14
    [] v = "StreamingNotAvailable" -> 15
    [] v = "ServiceTemporarilyUnavailable" -> 16
    [] v = "RequiresLogin" -> 17
    [] v = "TrialExpired" -> 18
    [] v = "NotEnoughContent" -> 20
    [] v = "NotEnoughMembers" -> 21
    [] v = "NotEnoughFans" -> 22
    [] v = "NotEnoughNeighbours" -> 23
    [] v = "NoPeakRadio" -> 24
    [] v = "RadioNotFound" -> 25
    [] v = "APIKeySuspended" -> 26
    [] v = "Deprecated" -> 27
    [] v = "RateLimitExceeded" -> 29

\* a faulty TryFrom: the arm for 29 is lost and the gap 19 is filled
TryFromShifted(u) ==
  CASE u = 2 -> [Ok |-> "InvalidService"]
    [] u = 3 -> [Ok |-> "InvalidMethod"]
    [] u = 4 -> [Ok |-> "AuthenticationFailed"]
    [] u = 5 -> [Ok |-> "InvalidFormat"]
    [] u = 6 -> [Ok |-> "InvalidParameters"]
    [] u = 7 -> [Ok |-> "InvalidResource"]
    [] u = 8 -> [Ok |-> "OperationFailed"]
    [] u = 9 -> [Ok |-> "InvalidSessionKey"]
    [] u = 10 -> [Ok |-> "InvalidAPIKey"]
    [] u = 11 -> [Ok |-> "ServiceOffline"]
    [] u = 12 -> [Ok |-> "SubscribersOnly"]
    [] u = 13 -> [Ok |-> "InvalidMethodSignature"]
    [] u = 14 -> [Ok |-> "UnauthorizedToken"]
    [] u = 15 -> [Ok |-> "StreamingNotAvailable"]
    [] u = 16 -> [Ok |-> "ServiceTemporarilyUnavailable"]
    [] u = 17 -> [Ok |-> "RequiresLogin"]
    [] u = 18 -> [Ok |-> "TrialExpired"]
    [] u = 19 -> [Ok |-> "NotEnoughContent"]
    [] u = 20 -> [Ok |-> "NotEnoughContent"]
    [] u = 21 -> [Ok |-> "NotEnoughMembers"]
    [] u = 22 -> [Ok |-> "NotEnoughFans"]
    [] u = 23 -> [Ok |-> "NotEnoughNeighbours"]
    [] u = 24 -> [Ok |-> "NoPeakRadio"]
    [] u = 25 -> [Ok |-> "RadioNotFound"]
    [] u = 26 -> [Ok |-> "APIKeySuspended"]
    [] u = 27 -> [Ok |-> "Deprecated"]
    [] OTHER -> [Err |-> u]

\* impl TryFrom<u64> for ErrorCode: Ok(variant) or Err(InvalidErrorCode(u))
TryFrom(u) ==
  CASE u = 2 -> [Ok |-> "InvalidService"]
    [] u = 3 -> [Ok |-> "InvalidMethod"]
    [] u = 4 -> [Ok |-> "AuthenticationFailed"]
    [] u = 5 -> [Ok |-> "InvalidFormat"]
    [] u = 6 -> [Ok |-> "InvalidParameters"]
    [] u = 7 -> [Ok |-> "InvalidResource"]
    [] u = 8 -> [Ok |-> "OperationFailed"]
    [] u = 9 -> [Ok |-> "InvalidSessionKey"]
    [] u = 10 -> [Ok |-> "InvalidAPIKey"]
    [] u = 11 -> [Ok |-> "ServiceOffline"]
    [] u = 12 -> [Ok |-> "SubscribersOnly"]
    [] u = 13 -> [Ok |-> "InvalidMethodSignature"]
    [] u = 14 -> [Ok |-> "UnauthorizedToken"]
    [] u = 15 -> [Ok |-> "StreamingNotAvailable"]
    [] u = 16 -> [Ok |-> "ServiceTemporarilyUnavailable"]
    [] u = 17 -> [Ok |-> "RequiresLogin"]
    [] u = 18 -> [Ok |-> "TrialExpired"]
    [] u = 20 -> [Ok |-> "NotEnoughContent"]
    [] u = 21 -> [Ok |-> "NotEnoughMembers"]
    [] u = 22 -> [Ok |-> "NotEnoughFans"]
    [] u = 23 -> [Ok |-> "NotEnoughNeighbours"]
    [] u = 24 -> [Ok |-> "NoPeakRadio"]
    [] u = 25 -> [Ok |-> "RadioNotFound"]
    [] u = 26 -> [Ok |-> "APIKeySuspended"]
    [] u = 27 -> [Ok |-> "Deprecated"]
    [] u = 29 -> [Ok |-> "RateLimitExceeded"]
    [] OTHER -> [Err |-> u]

\* ErrorCodeVisitor::visit_u8 / visit_u32 / visit_u64: the value widened to
\* u64, then try_from, the error turned into serde's custom error
\* "invalid error code: {n}"
VisitUnsigned(value) ==
  LET r == TryFrom(value)
  IN IF "Ok" \in DOMAIN r
       THEN r
       ELSE [Err |-> "invalid error code", n |-> r.Err]

\* impl Deserialize for ErrorCode: deserialize_i32 hands a non-negative JSON
\* integer to visit_u64; the visitor has no visit_i64, so a negative one is
\* serde's "invalid type" error
DeserializeErrorCode(n) ==
  IF n >= 0 THEN VisitUnsigned(n) ELSE [Err |-> "invalid type", n |-> n]

(***************************************************************************)
(* lastfm/mod.rs: the error envelope.                                      *)
(***************************************************************************)
\* the range of ProxyErrorResponse.error, a u8
U8Max == 255

\* the match of impl From<ProxyErrorResponse> for ErrorResponse
CodeOf(n) ==
  CASE n = 2 -> "InvalidService"
    [] n = 3 -> "InvalidMethod"
    [] n = 4 -> "AuthenticationFailed"
    [] n = 5 -> "InvalidFormat"
    [] n = 6 -> "InvalidParameters"
    [] n = 7 -> "InvalidResource"
    [] n = 8 -> "OperationFailed"
    [] n = 9 -> "InvalidSessionKey"
    [] n = 10 -> "InvalidAPIKey"
    [] n = 11 -> "ServiceOffline"
    [] n = 12 -> "SubscribersOnly"
    [] n = 13 -> "InvalidMethodSignature"
    [] n = 14 -> "UnauthorizedToken"
    [] n = 15 -> "StreamingNotAvailable"
    [] n = 16 -> "ServiceTemporarilyUnavailable"
    [] n = 17 -> "RequiresLogin"
    [] n = 18 -> "TrialExpired"
    [] n = 20 -> "NotEnoughContent"
    [] n = 21 -> "NotEnoughMembers"
    [] n = 22 -> "NotEnoughFans"
    [] n = 23 -> "NotEnoughNeighbours"
    [] n = 24 -> "NoPeakRadio"
    [] n = 25 -> "RadioNotFound"
    [] n = 26 -> "APIKeySuspended"
    [] n = 27 -> "Deprecated"
    [] n = 29 -> "RateLimitExceeded"
    [] OTHER -> "Generic"

\* enum ErrorCode (mod.rs): the variants of errors.rs and Generic = 1
ModDiscriminant(v) == IF v = "Generic" THEN 1 ELSE Discriminant(v)

\* a faulty FromProxy: the message is replaced by a fixed text
FromProxyNoMessage(err) == [error |-> CodeOf(err.error), message |-> ""]

\* impl From<ProxyErrorResponse> for ErrorResponse
FromProxy(err) == [error |-> CodeOf(err.error), message |-> err.message]

\* a body that is not JSON at all, such as the truncated {"similartracks":
Malformed == [malformed |-> TRUE]

IsJsonObject(body) == "malformed" \notin DOMAIN body

\* #[derive(Deserialize)] struct ProxyErrorResponse { error: u8, message }:
\* both fields are required, error must fit a u8, other fields are ignored
DeserializeProxyErrorResponse(body) ==
  IF /\ IsJsonObject(body)
     /\ "error" \in DOMAIN body
     /\ "message" \in DOMAIN body
     /\ body.error >= 0
     /\ body.error <= U8Max
    THEN [Ok |-> [error |-> body.error, message |-> body.message]]
    ELSE [Err |-> "Parsing"]

(***************************************************************************)
(* lastfm/mod.rs: the similar-tracks schema.                               *)
(***************************************************************************)
\* #[derive(Deserialize)] struct Artist { name }
DeserializeArtist(o) ==
  IF "name" \in DOMAIN o THEN [Ok |-> [name |-> o.name]] ELSE [Err |-> "Parsing"]

\* #[derive(Deserialize)] struct SimilarTrack { name, artist }
DeserializeSimilarTrack(o) ==
  IF "name" \in DOMAIN o /\ "artist" \in DOMAIN o
    THEN LET a == DeserializeArtist(o.artist)
         IN IF "Ok" \in DOMAIN a
              THEN [Ok |-> [name |-> o.name, artist |-> a.Ok]]
              ELSE a
    ELSE [Err |-> "Parsing"]

\* a faulty DeserializeVec: the elements are collected in reverse
RECURSIVE DeserializeVecReversed(_)
DeserializeVecReversed(arr) ==
  IF arr = <<>>
    THEN [Ok |-> <<>>]
    ELSE LET h == DeserializeSimilarTrack(Head(arr))
             t == DeserializeVecReversed(Tail(arr))
         IN IF "Ok" \notin DOMAIN h THEN h
            ELSE IF "Ok" \notin DOMAIN t THEN t
            ELSE [Ok |-> Append(t.Ok, h.Ok)]

\* Vec<SimilarTrack>: the elements decoded in order, the first failure ends it
RECURSIVE DeserializeVec(_)
DeserializeVec(arr) ==
  IF arr = <<>>
    THEN [Ok |-> <<>>]
    ELSE LET h == DeserializeSimilarTrack(Head(arr))
             t == DeserializeVec(Tail(arr))
         IN IF "Ok" \notin DOMAIN h THEN h
            ELSE IF "Ok" \notin DOMAIN t THEN t
            ELSE [Ok |-> <<h.Ok>> \o t.Ok]

\* struct InnerSimilarTracks { #[serde(rename = "track")] tracks }
DeserializeInnerSimilarTracks(o) ==
  IF "track" \in DOMAIN o
    THEN LET v == DeserializeVec(o.track)
         IN IF "Ok" \in DOMAIN v THEN [Ok |-> [tracks |-> v.Ok]] ELSE v
    ELSE [Err |-> "Parsing"]

\* struct SimilarTracks { #[serde(rename = "similartracks")] similar_tracks }
DeserializeSimilarTracks(body) ==
  IF IsJsonObject(body) /\ "similartracks" \in DOMAIN body
    THEN LET i == DeserializeInnerSimilarTracks(body.similartracks)
         IN IF "Ok" \in DOMAIN i THEN [Ok |-> [similar_tracks |-> i.Ok]] ELSE i
    ELSE [Err |-> "Parsing"]

\* hyper's StatusCode::is_success as parse_response uses it: 200..=299
IsSuccess(status) == status >= 200 /\ status < 300

\* a faulty ParseResponseBody: an error envelope is looked for first,
\* whatever the status
ParseResponseBodyEnvelopeFirst(status, body) ==
  LET r == DeserializeProxyErrorResponse(body)
  IN IF "Ok" \in DOMAIN r
       THEN [Err |-> "Api", response |-> FromProxy(r.Ok)]
       ELSE DeserializeSimilarTracks(body)

\* the closure of parse_response::<SimilarTracks>, run on the body bytes once
\* concat2 has delivered them
ParseResponseBody(status, body) ==
  IF IsSuccess(status)
    THEN DeserializeSimilarTracks(body)
    ELSE LET r == DeserializeProxyErrorResponse(body)
         IN IF "Ok" \in DOMAIN r
              THEN [Err |-> "Api", response |-> FromProxy(r.Ok)]
              ELSE r

\* the .map(|s: SimilarTracks| s.similar_tracks.tracks) of similar_tracks
MapTracks(r) ==
  IF "Ok" \in DOMAIN r THEN [Ok |-> r.Ok.similar_tracks.tracks] ELSE r

\* what similar_tracks yields once the body of a response has been read
CallResult(status, body) == MapTracks(ParseResponseBody(status, body))

(***************************************************************************)
(* lastfm/mod.rs: Client, build_uri.                                       *)
(***************************************************************************)
\* static BASE_URL = "http://ws.audioscrobbler.com/2.0"
BASE_URL ==
  <<"h", "t", "t", "p", ":", "/", "/", "w", "s", ".", "a", "u", "d", "i",
    "o", "s", "c", "r", "o", "b", "b", "l", "e", "r", ".", "c", "o", "m",
    "/", "2", ".", "0">>

\* the literal pieces of the two format! templates
LitMethod ==
  <<"?", "m", "e", "t", "h", "o", "d", "=">>
LitApiKey ==
  <<"&", "a", "p", "i", "_", "k", "e", "y", "=">>
LitFormat ==
  <<"&", "f", "o", "r", "m", "a", "t", "=", "j", "s", "o", "n", "&">>
LitArtist ==
  <<"a", "r", "t", "i", "s", "t", "=">>
LitTrack ==
  <<"&", "t", "r", "a", "c", "k", "=">>
TrackGetSimilar ==
  <<"t", "r", "a", "c", "k", ".", "g", "e", "t", "s", "i", "m", "i", "l",
    "a", "r">>

\* Client::new: the two borrowed references, nothing else
New(api_key, http) == [api_key |-> api_key, http |-> http]

\* a faulty FormatParams: the two arguments change places
FormatParamsSwapped(artist, track) == LitArtist \o track \o LitTrack \o artist

\* format!("artist={}&track={}", artist, track)
FormatParams(artist, track) == LitArtist \o artist \o LitTrack \o track

\* format!("{}?method={}&api_key={}&format=json&{}", BASE_URL, method,
\*         self.api_key, params)
FormatEndpoint(cl, method, params) ==
  BASE_URL \o LitMethod \o method \o LitApiKey \o cl.api_key \o LitFormat \o params

\* bytes the Uri parser rejects in a query (InvalidUriChar)
InvalidUriChars == {" ", "<", ">"}

\* index of the first byte of s the Uri parser stops at, 0 if there is none
RECURSIVE FirstStop(_, _)
FirstStop(s, i) ==
  IF i > Len(s) THEN 0
  ELSE IF s[i] = "#" \/ s[i] \in InvalidUriChars THEN i
  ELSE FirstStop(s, i + 1)

\* endpoint.parse::<hyper::Uri>(): an invalid byte is an error, a '#' starts
\* the fragment, which a Uri does not keep
UriParse(s) ==
  LET i == FirstStop(s, 1)
  IN IF i = 0 THEN [Ok |-> s]
     ELSE IF s[i] = "#" THEN [Ok |-> SubSeq(s, 1, i - 1)]
     ELSE [Err |-> "InvalidUriChar"]

\* the text of a sequence of bytes, as one string
RECURSIVE Text(_)
Text(s) == IF s = <<>> THEN "" ELSE Head(s) \o Text(Tail(s))

\* Client::build_uri up to the unwrap: Err is the panic of unwrap()
BuildUri(cl, method, params) == UriParse(FormatEndpoint(cl, method, params))

\* the Uri similar_tracks hands to http.get
RequestUri(cl, artist, track) ==
  BuildUri(cl, TrackGetSimilar, FormatParams(artist, track))

(***************************************************************************)
(* The inputs: what callers pass and what the server and the HTTP client   *)
(* can answer.                                                             *)
(***************************************************************************)
Keys == {<<"k", "1">>, <<"k", "#", "2">>}

Artists == {<<"c", "h", "e", "r">>, <<"a", " ", "b">>, <<"a", "#", "b">>,
            <<"a", "&", "b">>, <<>>}

TrackNames == {<<"b", "e", "l", "i", "e", "v", "e">>, <<"x", " ", "#">>,
               <<"#", " ">>, <<"%", "2", "0">>}

\* what the calls of the protocol are made with
CallArtists == {<<"c", "h", "e", "r">>, <<"a", " ", "b">>, <<"a", "#", "b">>}
CallTrackNames == {<<"b", "e", "l", "i", "e", "v", "e">>}

Statuses == {200, 299, 300, 403}
CallStatuses == {200, 300, 403}

\* JSON track objects: with and without the fields the schema ignores, and
\* two that lack a required field
TrackStrongEnough ==
  [name |-> "Strong Enough", playcount |-> 670120, mbid |-> "39473218",
   match |-> 1, artist |-> [name |-> "Cher", mbid |-> "bfcc6d75"]]
TrackWaterloo == [name |-> "Waterloo", artist |-> [name |-> "Abba"]]
TrackNoName == [playcount |-> 1, artist |-> [name |-> "Cher"]]
TrackNoArtistName == [name |-> "Believe", artist |-> [mbid |-> "bfcc6d75"]]

GoodTrackObjects == {TrackStrongEnough, TrackWaterloo}
TrackObjects == GoodTrackObjects \cup {TrackNoName, TrackNoArtistName}

SeqsUpTo(S, n) == UNION {[1..k -> S] : k \in 0..n}

Messages == {"Invalid API Key", "?"}

\* the integers an error envelope is probed with: the whole u8 range, and
\* values beyond it
WireInts == (-1..300) \cup {65535, 65536, 2147483647}

SuccessBodies(objs) ==
  {[similartracks |-> [track |-> ts]] : ts \in SeqsUpTo(objs, MaxTracks)}

ErrorBodies(ints) ==
  {[error |-> n, message |-> m] : n \in ints, m \in Messages}

\* bodies that fit neither schema, and one that fits both
OddBodies ==
  {Malformed,
   [similartracks |-> [total |-> 0]],
   [message |-> "?"],
   [error |-> 10],
   [error |-> 10, message |-> "?", similartracks |-> [track |-> <<TrackWaterloo>>]]}

Bodies == SuccessBodies(TrackObjects) \cup ErrorBodies(WireInts) \cup OddBodies

\* the bodies the calls of the protocol receive
CallBodies ==
  {[similartracks |-> [track |-> ts]] :
     ts \in {<<>>, <<TrackStrongEnough>>, <<TrackWaterloo, TrackStrongEnough>>}}
    \cup {[error |-> n, message |-> "Invalid API Key"] : n \in {10, 255, 256}}
    \cup OddBodies

(***************************************************************************)
(* The pure functions, applied to one input at a time.                     *)
(***************************************************************************)
NoProbe == [op |-> "none"]

ProbeTryFrom(u) ==
  probe' = [op |-> "try_from", u |-> u, out |-> TryFrom(u)]

ProbeDeserializeErrorCode(n) ==
  probe' = [op |-> "deserialize_error_code", u |-> n, out |-> DeserializeErrorCode(n)]

(***************************************************************************)
(* One call of similar_tracks: the future it returns, step by step.        *)
(*   calls[c]  the call held in slot c: where it is (pc), its arguments,   *)
(*             the Uri requested, the status and the body received, and    *)
(*             what it yielded                                             *)
(*   client    the Client the calls share                                  *)
(*   failed    whether a call on the Client has ended in an error so far;  *)
(*             prior is its value when the call was made                   *)
(***************************************************************************)
Calls == {"c1", "c2"}

Idle == [pc |-> "Idle"]

Outcomes == {"Success", "ApiErr", "ParseErr", "TransportErr"}

Failures == {"ApiErr", "ParseErr", "TransportErr"}

\* the error variant a result carries: Error::ParsingError,
\* Error::HTTPError, Error::APIError
OutcomeOf(result) ==
  IF "Ok" \in DOMAIN result THEN "Success"
  ELSE IF result.Err = "Api" THEN "ApiErr"
  ELSE IF result.Err = "Transport" THEN "TransportErr"
  ELSE "ParseErr"

\* impl From<hyper::Error> for Error
FromHyperError == [Err |-> "Transport"]

\* a faulty ClientAfter: a failed call clears the key it borrowed
ClientAfterLosesKey(cl, outcome) ==
  IF outcome \in Failures THEN [cl EXCEPT !.api_key = <<>>] ELSE cl

\* similar_tracks takes &self: the Client after a call is the Client before
ClientAfter(cl, outcome) == cl

\* a faulty AfterSendError: the request is sent once more before giving up
AfterSendErrorRetry(call) ==
  IF call.gets < 2
    THEN [call EXCEPT !.gets = call.gets + 1]
    ELSE [pc |-> "TransportErr", artist |-> call.artist, track |-> call.track,
          uri |-> call.uri, gets |-> call.gets, prior |-> call.prior,
          result |-> FromHyperError]

\* .map_err(Error::from) on the ResponseFuture: the call ends with HTTPError
AfterSendError(call) ==
  [pc |-> "TransportErr", artist |-> call.artist, track |-> call.track,
   uri |-> call.uri, gets |-> call.gets, prior |-> call.prior,
   result |-> FromHyperError]

\* a faulty AfterBodyError: the bytes read so far are decoded anyway
AfterBodyErrorDecodes(call) ==
  LET r == CallResult(call.status, Malformed)
  IN [pc |-> OutcomeOf(r), artist |-> call.artist, track |-> call.track,
      uri |-> call.uri, gets |-> call.gets, prior |-> call.prior,
      status |-> call.status, body |-> Malformed, result |-> r]

\* .map_err(Error::from) on body.concat2(): the call ends with HTTPError, the
\* closure that decodes is not run
AfterBodyError(call) ==
  [pc |-> "TransportErr", artist |-> call.artist, track |-> call.track,
   uri |-> call.uri, gets |-> call.gets, prior |-> call.prior,
   status |-> call.status, result |-> FromHyperError]

\* a faulty ResponseFor: the body is decoded against the status of the
\* response another call is waiting on
ResponseForShared(cs, c) ==
  LET others == {d \in Calls : d # c /\ cs[d].pc = "Received"}
  IN IF others = {} THEN cs[c].status
     ELSE cs[CHOOSE d \in others : TRUE].status

\* res.into_parts(): the status the closure of parse_response sees is the one
\* of the call's own response
ResponseFor(cs, c) == cs[c].status

\* similar_tracks(artist, track): build_uri, then http.get(uri); an
\* unparseable endpoint panics in unwrap() before anything is requested
SimilarTracks(c, artist, track) ==
  /\ calls[c].pc = "Idle"
  /\ LET u == RequestUri(client, artist, track)
     IN calls' = [calls EXCEPT ![c] =
          IF "Ok" \in DOMAIN u
            THEN [pc |-> "Sending", artist |-> artist, track |-> track,
                  uri |-> Text(u.Ok), gets |-> 1, prior |-> failed]
            ELSE [pc |-> "Panicked", artist |-> artist, track |-> track]]
  /\ client' = ClientAfter(client, "Pending")
  /\ UNCHANGED <<failed, probe>>

\* the ResponseFuture resolves with a response: its head is in, its body is
\* still to be read
ResponseArrives(c, status) ==
  /\ calls[c].pc = "Sending"
  /\ calls' = [calls EXCEPT ![c] =
       [pc |-> "Received", artist |-> calls[c].artist, track |-> calls[c].track,
        uri |-> calls[c].uri, gets |-> calls[c].gets, prior |-> calls[c].prior,
        status |-> status]]
  /\ UNCHANGED <<client, failed, probe>>

\* the ResponseFuture resolves with a hyper::Error
SendFails(c) ==
  /\ calls[c].pc = "Sending"
  /\ calls' = [calls EXCEPT ![c] = AfterSendError(calls[c])]
  /\ client' = ClientAfter(client, calls'[c].pc)
  /\ failed' = TRUE
  /\ UNCHANGED probe

\* concat2 delivers the whole body and the closure of parse_response decodes
\* it in the same poll
BodyArrives(c, body) ==
  /\ calls[c].pc = "Received"
  /\ LET r == CallResult(ResponseFor(calls, c), body)
     IN /\ calls' = [calls EXCEPT ![c] =
             [pc |-> OutcomeOf(r), artist |-> calls[c].artist,
              track |-> calls[c].track, uri |-> calls[c].uri,
              gets |-> calls[c].gets, prior |-> calls[c].prior,
              status |-> calls[c].status, body |-> body, result |-> r]]
        /\ client' = ClientAfter(client, OutcomeOf(r))
        /\ failed' = (failed \/ OutcomeOf(r) # "Success")
  /\ UNCHANGED probe

\* concat2 fails while the body is read
BodyFails(c) ==
  /\ calls[c].pc = "Received"
  /\ calls' = [calls EXCEPT ![c] = AfterBodyError(calls[c])]
  /\ client' = ClientAfter(client, calls'[c].pc)
  /\ failed' = TRUE
  /\ UNCHANGED probe

\* the caller drops the future at one of its two suspension points
Drop(c) ==
  /\ calls[c].pc \in {"Sending", "Received"}
  /\ calls' = [calls EXCEPT ![c] =
       [pc |-> "Dropped", artist |-> calls[c].artist, track |-> calls[c].track,
        uri |-> calls[c].uri, gets |-> calls[c].gets, prior |-> calls[c].prior]]
  /\ UNCHANGED <<client, failed, probe>>

\* the caller is done with a finished future: the slot is free for the next
\* call on the same Client
Release(c) ==
  /\ calls[c].pc \in Outcomes \cup {"Dropped", "Panicked"}
  /\ calls' = [calls EXCEPT ![c] = Idle]
  /\ UNCHANGED <<client, failed, probe>>

(***************************************************************************)
(* Specifications.                                                         *)
(***************************************************************************)
Init ==
  /\ client \in {New(k, "hyper") : k \in Keys}
  /\ calls = [c \in Calls |-> Idle]
  /\ failed = FALSE
  /\ probe = NoProbe

\* calls in flight together on one shared Client
Next ==
  \/ \E c \in Calls, a \in CallArtists, t \in CallTrackNames : SimilarTracks(c, a, t)
  \/ \E c \in Calls, st \in CallStatuses : ResponseArrives(c, st)
  \/ \E c \in Calls : SendFails(c)
  \/ \E c \in Calls, b \in CallBodies : BodyArrives(c, b)
  \/ \E c \in Calls : BodyFails(c)
  \/ \E c \in Calls : Drop(c)
  \/ \E c \in Calls : Release(c)

Spec == Init /\ [][Next]_vars

\* the same calls, each driven to its end: the caller drops none, polls
\* every future, and the HTTP client answers or fails
NextDriven ==
  \/ \E c \in Calls, a \in CallArtists, t \in CallTrackNames : SimilarTracks(c, a, t)
  \/ \E c \in Calls, st \in CallStatuses : ResponseArrives(c, st)
  \/ \E c \in Calls : SendFails(c)
  \/ \E c \in Calls, b \in CallBodies : BodyArrives(c, b)
  \/ \E c \in Calls : BodyFails(c)
  \/ \E c \in Calls : Release(c)

FairSpec ==
  /\ Init /\ [][NextDriven]_vars
  /\ \A c \in Calls :
       /\ WF_vars(SendFails(c) \/ \E st \in CallStatuses : ResponseArrives(c, st))
       /\ WF_vars(BodyFails(c) \/ \E b \in CallBodies : BodyArrives(c, b))

\* one call at a time, over every argument and every response of the model
NextOne ==
  \/ \E a \in Artists, t \in TrackNames : SimilarTracks("c1", a, t)
  \/ \E st \in Statuses : ResponseArrives("c1", st)
  \/ SendFails("c1")
  \/ \E b \in Bodies : BodyArrives("c1", b)
  \/ BodyFails("c1")
  \/ Release("c1")

SpecOne == Init /\ [][NextOne]_vars

\* the decoding of errors.rs, one integer at a time
NextCodes ==
  \/ \E u \in WireInts : u >= 0 /\ ProbeTryFrom(u) /\ UNCHANGED <<client, calls, failed>>
  \/ \E n \in WireInts : ProbeDeserializeErrorCode(n) /\ UNCHANGED <<client, calls, failed>>

SpecCodes == Init /\ [][NextCodes]_vars

(***************************************************************************)
(* The claims.                                                             *)
(***************************************************************************)
\* a call that has read and decoded a body
Decoded(k) == k.pc \in {"Success", "ApiErr", "ParseErr"}

Non2xx(status) == status \notin 200..299

\* C1: decoding an integer n of the enumerated set yields the variant whose
\* wire integer is n; decoding any other unsigned integer fails with an
\* invalid-error-code error that carries exactly n.
C1_DecodingExact ==
  /\ probe.op = "try_from" =>
       IF probe.u \in Enumerated
         THEN DOMAIN probe.out = {"Ok"} /\ Discriminant(probe.out.Ok) = probe.u
         ELSE DOMAIN probe.out = {"Err"} /\ probe.out.Err = probe.u
  /\ (probe.op = "deserialize_error_code" /\ probe.u >= 0) =>
       IF probe.u \in Enumerated
         THEN DOMAIN probe.out = {"Ok"} /\ Discriminant(probe.out.Ok) = probe.u
         ELSE /\ DOMAIN probe.out = {"Err", "n"}
              /\ probe.out.Err = "invalid error code"
              /\ probe.out.n = probe.u

\* the gap 28 has been decoded, and refused with 28 in the error
C1_Witness ==
  /\ probe.op = "deserialize_error_code"
  /\ probe.u = 28
  /\ "Ok" \notin DOMAIN probe.out
  /\ probe.out.n = 28

\* C2: a non-2xx response whose body is the error envelope {error: n,
\* message: m} with n enumerated makes the call return the Api error with
\* the variant for n and the message m unchanged, never a success value.
C2_ApiErrorCarriesCodeAndMessage ==
  \A c \in Calls :
    LET k == calls[c]
    IN (/\ Decoded(k)
        /\ Non2xx(k.status)
        /\ {"error", "message"} \subseteq DOMAIN k.body
        /\ k.body.error \in Enumerated)
       => /\ k.pc = "ApiErr"
          /\ k.result.Err = "Api"
          /\ ModDiscriminant(k.result.response.error) = k.body.error
          /\ k.result.response.message = k.body.message

\* status 403, error 10, message "Invalid API Key" has been answered with
\* Api(InvalidAPIKey, "Invalid API Key")
C2_Witness ==
  /\ calls["c1"].pc = "ApiErr"
  /\ calls["c1"].status = 403
  /\ calls["c1"].body = [error |-> 10, message |-> "Invalid API Key"]
  /\ calls["c1"].result.response =
       [error |-> "InvalidAPIKey", message |-> "Invalid API Key"]

\* C3: no call returns an Api error whose code is outside the enumerated
\* variants: a non-2xx response whose envelope carries an integer outside the
\* enumerated set yields a Parsing error, not an Api error and not a
\* catch-all code.
C3_NoApiErrorOutsideEnumeration ==
  \A c \in Calls :
    LET k == calls[c]
    IN /\ k.pc = "ApiErr" => ModDiscriminant(k.result.response.error) \in Enumerated
       /\ (/\ Decoded(k)
           /\ Non2xx(k.status)
           /\ {"error", "message"} \subseteq DOMAIN k.body
           /\ k.body.error \notin Enumerated)
          => k.pc = "ParseErr"

\* a body of exactly the two fields of the error envelope
IsErrorEnvelope(body) == DOMAIN body = {"error", "message"}

\* a body of exactly the success shape, every track with its required fields
IsSuccessPayload(body) ==
  /\ DOMAIN body = {"similartracks"}
  /\ "track" \in DOMAIN body.similartracks
  /\ \A i \in 1..Len(body.similartracks.track) :
       LET t == body.similartracks.track[i]
       IN {"name", "artist"} \subseteq DOMAIN t /\ "name" \in DOMAIN t.artist

\* C4: the status alone selects the schema: a 2xx response whose body is an
\* error envelope is a Parsing error, never an Api error, and a non-2xx
\* response whose body is a well-formed success payload is a Parsing error,
\* never a success.
C4_StatusSelectsSchema ==
  \A c \in Calls :
    LET k == calls[c]
    IN Decoded(k) =>
         /\ (~Non2xx(k.status) /\ IsErrorEnvelope(k.body)) => k.pc = "ParseErr"
         /\ (Non2xx(k.status) /\ IsSuccessPayload(k.body)) => k.pc = "ParseErr"
         /\ ~Non2xx(k.status) => k.pc # "ApiErr"
         /\ Non2xx(k.status) => k.pc # "Success"

\* status 299 with the body of an API error has been answered with a
\* Parsing error
C4_Witness ==
  /\ calls["c1"].pc = "ParseErr"
  /\ calls["c1"].status = 299
  /\ calls["c1"].body = [error |-> 10, message |-> "Invalid API Key"]

\* the name and the artist name of every element of a JSON track array
NamesOf(ts) ==
  [i \in 1..Len(ts) |-> [name |-> ts[i].name, artist |-> [name |-> ts[i].artist.name]]]

\* C8: on a 2xx response of the shape {"similartracks": {"track": [t1..tk]}}
\* the call returns exactly the inner sequence: k elements, the i-th with the
\* name and artist name of ti, other fields dropped, nothing lost, repeated
\* or reordered.
C8_TracksInServerOrder ==
  \A c \in Calls :
    LET k == calls[c]
    IN (/\ Decoded(k)
        /\ ~Non2xx(k.status)
        /\ "similartracks" \in DOMAIN k.body
        /\ "track" \in DOMAIN k.body.similartracks
        /\ \A i \in 1..Len(k.body.similartracks.track) :
             LET t == k.body.similartracks.track[i]
             IN {"name", "artist"} \subseteq DOMAIN t /\ "name" \in DOMAIN t.artist)
       => /\ k.pc = "Success"
          /\ DOMAIN k.result = {"Ok"}
          /\ Len(k.result.Ok) = Len(k.body.similartracks.track)
          /\ k.result.Ok = NamesOf(k.body.similartracks.track)

\* two different tracks, the second with fields the schema ignores, have
\* been returned in the order the server sent them
C8_Witness ==
  /\ calls["c1"].pc = "Success"
  /\ calls["c1"].body = [similartracks |-> [track |-> <<TrackWaterloo, TrackStrongEnough>>]]
  /\ calls["c1"].result.Ok =
       <<[name |-> "Waterloo", artist |-> [name |-> "Abba"]],
         [name |-> "Strong Enough", artist |-> [name |-> "Cher"]]>>

\* the documented URL, up to the key
UrlUpToKey ==
  <<"h", "t", "t", "p", ":", "/", "/", "w", "s", ".", "a", "u", "d", "i",
    "o", "s", "c", "r", "o", "b", "b", "l", "e", "r", ".", "c", "o", "m",
    "/", "2", ".", "0", "?", "m", "e", "t", "h", "o", "d", "=", "t", "r",
    "a", "c", "k", ".", "g", "e", "t", "s", "i", "m", "i", "l", "a", "r",
    "&", "a", "p", "i", "_", "k", "e", "y", "=">>
UrlUpToArtist ==
  <<"&", "f", "o", "r", "m", "a", "t", "=", "j", "s", "o", "n", "&", "a",
    "r", "t", "i", "s", "t", "=">>

\* the template of the specification with its three substitutions
TemplateUrl(key, artist, track) ==
  UrlUpToKey \o key \o UrlUpToArtist \o artist \o LitTrack \o track

\* the positions of s that hold one of the bytes of S
Positions(s, S) == {i \in 1..Len(s) : s[i] \in S}

Least(S) == CHOOSE i \in S : \A j \in S : i <= j

\* C9 as stated: whatever the key, the artist and the track, the call
\* requests exactly the template with the three strings put in verbatim.
C9_UrlIsTemplateForEveryInput ==
  \A c \in Calls :
    LET k == calls[c]
    IN k.pc # "Idle" =>
         /\ "uri" \in DOMAIN k
         /\ k.uri = Text(TemplateUrl(client.api_key, k.artist, k.track))

\* C9 as amended: the call requests exactly the template with the three
\* strings put in verbatim when the text so built is a URI without a
\* fragment; when its first offending byte is one a URI cannot hold (a space,
\* '<', '>') the call panics and requests nothing; when it is a '#' the call
\* requests the text before that '#'.
C9_UrlIsTemplateWhenItParses ==
  \A c \in Calls :
    LET k == calls[c]
    IN k.pc # "Idle" =>
         LET e == TemplateUrl(client.api_key, k.artist, k.track)
             stops == Positions(e, {" ", "<", ">", "#"})
         IN IF stops = {}
              THEN "uri" \in DOMAIN k /\ k.uri = Text(e)
              ELSE IF e[Least(stops)] = "#"
                THEN "uri" \in DOMAIN k /\ k.uri = Text(SubSeq(e, 1, Least(stops) - 1))
                ELSE k.pc = "Panicked" /\ "uri" \notin DOMAIN k

\* an artist with an ampersand has gone into the requested URL as it is
C9_Witness ==
  /\ calls["c1"].pc = "Sending"
  /\ calls["c1"].artist = <<"a", "&", "b">>
  /\ calls["c1"].track = <<"%", "2", "0">>
  /\ client.api_key = <<"k", "1">>
  /\ calls["c1"].uri =
       Text(UrlUpToKey) \o "k1&format=json&artist=a&b&track=%20"

\* C5: a transport failure at either I/O point (the response never arrives,
\* or the body cannot be read) makes the call return the Transport error,
\* whatever status was received; no body is decoded, and no Parsing error,
\* Api error or success value is returned.
C5_TransportFailureIsTransportError ==
  [][\A c \in Calls :
       (SendFails(c) \/ BodyFails(c)) =>
         /\ calls'[c].pc = "TransportErr"
         /\ calls'[c].result = [Err |-> "Transport"]
         /\ "body" \notin DOMAIN calls'[c]
         /\ "status" \in DOMAIN calls[c] => calls'[c].status = calls[c].status]_vars

\* the body of a response with a success status could not be read, and the
\* call ended with the Transport error
C5_Witness ==
  /\ calls["c1"].pc = "TransportErr"
  /\ "status" \in DOMAIN calls["c1"]
  /\ calls["c1"].status = 200
  /\ calls["c1"].result = [Err |-> "Transport"]

\* the steps of the path Idle -> Sending -> (TransportErr | Received) ->
\* (Success | ApiErr | ParseErr), and the caller taking the outcome
OnPath(p, q) ==
  \/ p = "Idle" /\ q = "Sending"
  \/ p = "Sending" /\ q \in {"TransportErr", "Received"}
  \/ p = "Received" /\ q \in Outcomes
  \/ p \in Outcomes /\ q = "Idle"

\* C6 as stated: every call goes from Idle to Sending and on along the path.
C6_EveryCallFollowsThePath ==
  [][\A c \in Calls :
       calls'[c].pc # calls[c].pc => OnPath(calls[c].pc, calls'[c].pc)]_vars

\* the arguments of a call make a URL that parses
UrlParses(key, artist, track) ==
  LET e == TemplateUrl(key, artist, track)
      stops == Positions(e, {" ", "<", ">", "#"})
  IN stops = {} \/ e[Least(stops)] = "#"

\* C6 as amended: every call whose URL parses follows the path Idle ->
\* Sending -> (TransportErr | Received) -> (Success | ApiErr | ParseErr),
\* issues exactly one GET, never goes back to Sending after a failure, and,
\* if the HTTP client answers or fails, ends in exactly one of the four
\* outcomes, which is the one reported; a call whose URL does not parse
\* panics before any request and has no outcome.
C6_CallWithParsedUrlFollowsThePath ==
  /\ [][\A c \in Calls :
          calls'[c].pc # calls[c].pc =>
            \/ OnPath(calls[c].pc, calls'[c].pc)
            \/ /\ calls[c].pc = "Idle"
               /\ calls'[c].pc = "Panicked"
               /\ ~UrlParses(client.api_key, calls'[c].artist, calls'[c].track)
            \/ calls[c].pc = "Panicked" /\ calls'[c].pc = "Idle"]_vars
  /\ [](\A c \in Calls :
          /\ calls[c].pc = "Sending" =>
               UrlParses(client.api_key, calls[c].artist, calls[c].track)
          /\ calls[c].pc \in {"Sending", "Received"} \cup Outcomes =>
               calls[c].gets = 1
          /\ calls[c].pc = "Panicked" => "gets" \notin DOMAIN calls[c]
          /\ calls[c].pc \in Outcomes => OutcomeOf(calls[c].result) = calls[c].pc)
  /\ \A c \in Calls : (calls[c].pc = "Sending") ~> (calls[c].pc \in Outcomes)

\* one call has ended after a single GET while the other one panicked
\* before any
C6_Witness ==
  /\ calls["c1"].pc \in Outcomes
  /\ calls["c1"].gets = 1
  /\ calls["c2"].pc = "Panicked"

\* C7: no call, whatever its outcome, changes the Client's key or HTTP-client
\* reference; after failed calls a call on the same Client that gets a 2xx
\* response with a valid body requests what a fresh Client would request and
\* returns what it would return.
C7_ClientUnchangedByCalls ==
  /\ [][client' = client]_vars
  /\ [](\A c \in Calls :
          LET k == calls[c]
          IN /\ (k.pc \in {"Sending", "Received"} \cup Outcomes /\ k.prior) =>
                  k.uri =
                    Text(RequestUri(New(client.api_key, client.http), k.artist, k.track).Ok)
             /\ (/\ Decoded(k)
                 /\ k.prior
                 /\ ~Non2xx(k.status)
                 /\ IsSuccessPayload(k.body))
                => k.result = [Ok |-> NamesOf(k.body.similartracks.track)])

\* a call made after a failed one has succeeded
C7_Witness ==
  /\ calls["c2"].pc = "Success"
  /\ calls["c2"].prior
  /\ failed
  /\ Len(calls["c2"].result.Ok) > 0

\* C10: calls in flight together on one Client are independent under every
\* interleaving: a step of one call changes no other call and not the
\* Client, a drop included, and what a call returns is what its own status
\* and its own body decode to.
C10_CallsAreIndependent ==
  /\ [][/\ client' = client
        /\ \A c, d \in Calls :
             c # d => calls'[c] = calls[c] \/ calls'[d] = calls[d]]_vars
  /\ [](\A c \in Calls :
          Decoded(calls[c]) =>
            calls[c].result = CallResult(calls[c].status, calls[c].body))

\* one call was dropped while waiting for its body, the other, in flight at
\* the same time with another status, got its own API error
C10_Witness ==
  /\ calls["c1"].pc = "Dropped"
  /\ calls["c2"].pc = "ApiErr"
  /\ ~calls["c2"].prior
  /\ calls["c2"].status = 403

====
